---- MODULE Spec2Model ----
(***************************************************************************)
(* State-machine model of the CoBanker back office.                        *)
(*                                                                         *)
(*  - the in-memory ledger of src/backend/stable-server.js (customers,     *)
(*    accounts, transactions): every Express handler there is synchronous  *)
(*    (no await between its first read and its last write), so the event   *)
(*    loop runs concurrent requests one whole handler after another, in    *)
(*    any order: one handler invocation is one atomic step.                *)
(*  - the share registry (models/Share.js) and the dividend engine         *)
(*    (models/Dividend.js with its controller): every `await` on the       *)
(*    remote store is a point where another request may run, so each       *)
(*    request is a process (`calls`) stepping from store call to store     *)
(*    call.  Fixed deposits (class FixedDeposit) are modelled the same     *)
(*    way, with amounts in hundredths and dates in whole months.           *)
(*  - the loan lifecycle (issue, applyRepayment), whose controllers are    *)
(*    not among the sources: modelled from section 4.2 of the              *)
(*    specification.                                                       *)
(*  - the customer controller (part_001) with its in-memory fallback       *)
(*    store, used when the database does not answer.                       *)
(*                                                                         *)
(* Money is counted in whole units; request amounts are JSON numbers or    *)
(* numeric JSON strings.                                                   *)
(***************************************************************************)
EXTENDS Integers, Sequences, FiniteSets, TLC

\* ---------------------------------------------------------------- bounds
MaxCustomers == 1
MaxAccounts == 2
MaxTx == 2
MaxShares == 2
MaxDividends == 2
MaxCalls == 3
MaxActive == 2
MaxDeposits == 1
MaxMonths == 9
MaxLoans == 2
MaxRepayments == 4
MaxFallback == 3
MaxCreating == 2

\* ------------------------------------------------------ program constants
MinimumBalance == 0

VARIABLES
  customers,            \* stable-server.js: let customers = []
  accounts,             \* stable-server.js: let accounts = []
  transactions,         \* stable-server.js: let transactions = []
  customerIdCounter,
  accountIdCounter,
  transactionIdCounter,
  response,             \* the last response sent by the ledger server
  opening,              \* balance each account was opened with (history)
  shares,               \* store table `shares`
  share_transactions,   \* store table `share_transactions`
  dividends,            \* store table `dividends`
  dividend_distributions, \* store table `dividend_distributions`
  calls,                \* requests in flight, each waiting on a store call
  started,              \* number of requests started so far
  outcome,              \* the last request that returned or threw
  fixed_deposits,       \* store table `fixed_deposits`
  today,                \* the date the server clock shows, in whole months
  loans,                \* store table `loans`
  repayments,           \* store table `repayments`
  receipt,              \* the last repayment request and what it returned
  fallbackCustomers,    \* customer controller: let customers = []
  fallbackIdCounter,    \* customer controller: let customerIdCounter = 1
  creating,             \* createCustomer requests waiting on the database
  reply                 \* the last response sent by the customer controller

ledgerVars == <<customers, accounts, transactions, customerIdCounter,
                accountIdCounter, transactionIdCounter, response, opening>>

storeVars == <<shares, share_transactions, dividends, dividend_distributions,
               calls, started, outcome>>

vars == <<customers, accounts, transactions, customerIdCounter,
          accountIdCounter, transactionIdCounter, response, opening,
          shares, share_transactions, dividends, dividend_distributions,
          calls, started, outcome, fixed_deposits, today,
          loans, repayments, receipt,
          fallbackCustomers, fallbackIdCounter, creating, reply>>

registryVars == <<shares, share_transactions, dividends, dividend_distributions>>
depositVars == <<fixed_deposits, today>>
loanVars == <<loans, repayments, receipt>>
fallbackVars == <<fallbackCustomers, fallbackIdCounter, creating, reply>>

\* ---------------------------------------------------------------- helpers
RECURSIVE SumSeq(_)
SumSeq(s) == IF s = <<>> THEN 0 ELSE Head(s) + SumSeq(Tail(s))

\* A JSON value in a numeric field: a number, or a string of a numeral.
Num(n) == [str |-> FALSE, v |-> n]
Str(n) == [str |-> TRUE, v |-> n]

\* JavaScript truthiness of such a value: 0 is falsy, any non-empty string
\* (also "0") is truthy.
Truthy(tok) == tok.str \/ tok.v # 0

\* parseFloat of a number or of a numeral string is the number it denotes.
parseFloat(tok) == tok.v

\* The clock the handlers read with new Date(): one tick per stored record.
Now == customerIdCounter + accountIdCounter + transactionIdCounter

\* ------------------------------------------------------- request domains
Emails == {"a@x", "b@x"}
AmountInputs == {Num(0), Str(0), Num(-1), Num(1), Str(2)}
DepositInputs == {Num(-1), Num(0), Num(2)}
\* 0 stands for an absent id; ids not yet handed out name no stored record.
AccountIdInputs == 1..MaxAccounts
CustomerIdInputs == 0..MaxCustomers
TypeInputs == {"deposit", "withdrawal", "transfer", "refund"}
TransactionRequests ==
  [account_id : AccountIdInputs, type : TypeInputs, amount : AmountInputs]

NoRequest == [account_id |-> 0, type |-> "", amount |-> Num(0)]
Resp(route, status, error, req) ==
  [route |-> route, status |-> status, error |-> error, req |-> req]

\* accounts.find(a => a.id === id): index of the first match, 0 if none
FindAccount(id) ==
  IF \E i \in 1..Len(accounts) : accounts[i].id = id
  THEN CHOOSE i \in 1..Len(accounts) :
         /\ accounts[i].id = id
         /\ \A j \in 1..(i - 1) : accounts[j].id # id
  ELSE 0

\* ------------------------------------------------- POST /api/v1/customers
CreateCustomer(email) ==
  /\ UNCHANGED storeVars
  /\ customerIdCounter <= MaxCustomers
  /\ IF \E i \in 1..Len(customers) : customers[i].email = email
     THEN /\ response' = Resp("customers", 400,
                              "Customer with this email already exists", NoRequest)
          /\ UNCHANGED <<customers, customerIdCounter>>
     ELSE /\ customers' = Append(customers,
                 [id |-> customerIdCounter, email |-> email,
                  status |-> "active", created_at |-> Now])
          /\ customerIdCounter' = customerIdCounter + 1
          /\ response' = Resp("customers", 201, "", NoRequest)
  /\ UNCHANGED <<accounts, transactions, accountIdCounter,
                 transactionIdCounter, opening>>

\* -------------------------------------------------- POST /api/v1/accounts
CreateAccount(customer_id, initial_deposit) ==
  /\ UNCHANGED storeVars
  /\ accountIdCounter <= MaxAccounts
  /\ IF customer_id = 0
     THEN /\ response' = Resp("accounts", 400, "Customer ID is required", NoRequest)
          /\ UNCHANGED <<accounts, accountIdCounter, opening>>
     ELSE IF ~ \E i \in 1..Len(customers) : customers[i].id = customer_id
     THEN /\ response' = Resp("accounts", 400, "Customer not found", NoRequest)
          /\ UNCHANGED <<accounts, accountIdCounter, opening>>
     ELSE /\ accounts' = Append(accounts,
                 [id |-> accountIdCounter, customer_id |-> customer_id,
                  balance |-> parseFloat(initial_deposit), status |-> "active",
                  created_at |-> Now, updated_at |-> Now])
          /\ opening' = Append(opening, parseFloat(initial_deposit))
          /\ accountIdCounter' = accountIdCounter + 1
          /\ response' = Resp("accounts", 201, "", NoRequest)
  /\ UNCHANGED <<customers, transactions, customerIdCounter,
                 transactionIdCounter>>

\* ---------------------------------------------- POST /api/v1/transactions
\* A check that only refuses an empty account.
InsufficientFundsOnlyWhenEmpty(balance, transactionAmount) ==
  balance <= 0 /\ balance < transactionAmount

\* A check that is off by one unit.
InsufficientFundsOffByOne(balance, transactionAmount) ==
  balance + 1 < transactionAmount

\* line 504: account.balance < transactionAmount
InsufficientFunds(balance, transactionAmount) == balance < transactionAmount

\* A handler that charges one unit on every withdrawal.
NewBalanceWithFee(balance, type, transactionAmount) ==
  IF type = "deposit" THEN balance + transactionAmount
  ELSE IF type = "withdrawal" THEN balance - transactionAmount - 1
  ELSE balance

\* lines 500-511: the balance the handler will store
NewBalance(balance, type, transactionAmount) ==
  IF type = "deposit" THEN balance + transactionAmount
  ELSE IF type = "withdrawal" THEN balance - transactionAmount
  ELSE balance

\* The whole handler, run to completion on request req.
HandleTransaction(req) ==
  LET transactionAmount == parseFloat(req.amount)
      k == FindAccount(req.account_id)
  IN
  IF req.account_id = 0 \/ req.type = "" \/ ~Truthy(req.amount)
  THEN /\ response' = Resp("transactions", 400,
                           "Account ID, type, and amount are required", req)
       /\ UNCHANGED <<accounts, transactions, transactionIdCounter>>
  ELSE IF req.type \notin {"deposit", "withdrawal", "transfer"}
  THEN /\ response' = Resp("transactions", 400,
                           "Transaction type must be deposit, withdrawal, or transfer", req)
       /\ UNCHANGED <<accounts, transactions, transactionIdCounter>>
  ELSE IF transactionAmount <= 0
  THEN /\ response' = Resp("transactions", 400, "Amount must be greater than 0", req)
       /\ UNCHANGED <<accounts, transactions, transactionIdCounter>>
  ELSE IF k = 0
  THEN /\ response' = Resp("transactions", 400, "Account not found", req)
       /\ UNCHANGED <<accounts, transactions, transactionIdCounter>>
  ELSE IF req.type = "withdrawal"
          /\ InsufficientFunds(accounts[k].balance, transactionAmount)
  THEN /\ response' = Resp("transactions", 400, "Insufficient funds", req)
       /\ UNCHANGED <<accounts, transactions, transactionIdCounter>>
  ELSE LET newBalance == NewBalance(accounts[k].balance, req.type, transactionAmount)
       IN /\ transactions' = Append(transactions,
                 [id |-> transactionIdCounter, account_id |-> req.account_id,
                  type |-> req.type, amount |-> transactionAmount,
                  balance_before |-> accounts[k].balance,
                  balance_after |-> newBalance, status |-> "completed",
                  created_at |-> Now])
          /\ transactionIdCounter' = transactionIdCounter + 1
          /\ accounts' = [accounts EXCEPT ![k].balance = newBalance,
                                          ![k].updated_at = Now + 1]
          /\ response' = Resp("transactions", 201, "", req)

CreateTransaction(req) ==
  /\ UNCHANGED storeVars
  /\ transactionIdCounter <= MaxTx
  /\ HandleTransaction(req)
  /\ UNCHANGED <<customers, customerIdCounter, accountIdCounter, opening>>

InitLedger ==
  /\ customers = <<>>
  /\ accounts = <<>>
  /\ transactions = <<>>
  /\ customerIdCounter = 1
  /\ accountIdCounter = 1
  /\ transactionIdCounter = 1
  /\ response = Resp("", 0, "", NoRequest)
  /\ opening = <<>>

\* ======================================================================
\* The remote store and the requests in flight
\* ======================================================================
\* Table `members`, read but never written by the share and dividend code:
\* two active members, an inactive one, and an id that names no member.
Members == {"A", "B", "C"}
MemberStatus == [m \in Members |-> IF m = "C" THEN "inactive" ELSE "active"]
MemberIdInputs == Members \cup {"Z"}

SHARE_STATUS == {"active", "transferred", "redeemed", "suspended", "pending"}

Idle == [op |-> "idle"]
Slots == 1..MaxActive
\* the slot a new request takes: the lowest free one
FreeSlot == CHOOSE c \in Slots : calls[c] = Idle /\ \A d \in 1..(c - 1) : calls[d] # Idle

\* What the caller of the last finished request got back: the operation,
\* the row or member it was about, whether it returned (ok) or threw (error).
Outcome(op, ref, ok, error) == [op |-> op, ref |-> ref, ok |-> ok, error |-> error]

\* A request in flight returns or throws; its slot is released.
Finish(c, ref, ok, error) ==
  /\ outcome' = Outcome(calls[c].op, ref, ok, error)
  /\ calls' = [calls EXCEPT ![c] = Idle]

\* A request that throws after its first read, before any store write.
FinishAtStart(op, ref, ok, error) ==
  /\ outcome' = Outcome(op, ref, ok, error)
  /\ UNCHANGED <<calls, started>>

\* A request passes its first checks and waits for its next store call.
ProceedWith(op, pc, arg, loc) ==
  /\ started < MaxCalls
  /\ \E c \in Slots : calls[c] = Idle
  /\ started' = started + 1
  /\ calls' = [calls EXCEPT ![FreeSlot] =
         [op |-> op, pc |-> pc, id |-> started + 1, arg |-> arg, loc |-> loc]]
  /\ UNCHANGED outcome

Proceed(op, pc, arg) == ProceedWith(op, pc, arg, 0)

\* signed sum of a member's share_transactions rows
RECURSIVE SumShares(_, _)
SumShares(rows, m) ==
  IF rows = <<>> THEN 0
  ELSE (IF Head(rows).member_id = m THEN Head(rows).number_of_shares ELSE 0)
       + SumShares(Tail(rows), m)

\* fromMemberShares.reduce(...) over the member's active rows of `shares`
RECURSIVE TotalActiveShares(_, _)
TotalActiveShares(rows, m) ==
  IF rows = <<>> THEN 0
  ELSE (IF Head(rows).member_id = m /\ Head(rows).status = "active"
        THEN Head(rows).number_of_shares ELSE 0)
       + TotalActiveShares(Tail(rows), m)

\* ------------------------------------------------------------ Share.create
ShareData(m, n, st) ==
  [member_id |-> m, number_of_shares |-> n, share_value |-> 1, status |-> st]
ShareInputs ==
  {ShareData(m, 1, st) : m \in {"A", "B"}, st \in {"", "active"}}
    \cup {ShareData("A", 0, ""), ShareData("C", 1, ""), ShareData("Z", 1, "")}

\* shareValidationSchema on the fields the model keeps
ShareValid(d) == d.number_of_shares >= 1 /\ d.share_value >= 1

\* lines 98-121: constructor, validate(), member lookup
ShareCreateStart(d) ==
  /\ UNCHANGED <<shares, share_transactions, dividends, dividend_distributions>>
  /\ IF ~ShareValid(d)
     THEN FinishAtStart("Share.create", 0, FALSE, "Validation error")
     ELSE IF d.member_id \notin Members
     THEN FinishAtStart("Share.create", 0, FALSE, "Member not found")
     ELSE IF MemberStatus[d.member_id] # "active"
     THEN FinishAtStart("Share.create", 0, FALSE, "Member account is not active")
     ELSE Proceed("Share.create", "insert", d)

\* lines 123-133: insert into `shares`
ShareCreateInsert(c, stored) ==
  /\ calls[c].op = "Share.create" /\ calls[c].pc = "insert"
  /\ UNCHANGED <<share_transactions, dividends, dividend_distributions, started>>
  /\ IF stored /\ Len(shares) < MaxShares
     THEN /\ shares' = Append(shares,
                 [id |-> Len(shares) + 1, member_id |-> calls[c].arg.member_id,
                  number_of_shares |-> calls[c].arg.number_of_shares,
                  share_value |-> calls[c].arg.share_value,
                  total_amount |-> calls[c].arg.number_of_shares
                                     * calls[c].arg.share_value,
                  status |-> IF calls[c].arg.status = "" THEN "pending"
                             ELSE calls[c].arg.status,
                  created_at |-> Len(shares) + 1])
          /\ calls' = [calls EXCEPT ![c].pc = "createTransaction",
                                    ![c].loc = Len(shares) + 1]
          /\ UNCHANGED outcome
     ELSE /\ UNCHANGED shares
          /\ Finish(c, 0, FALSE, "Failed to create share allocation")

\* Share.createTransaction, lines 307-330: one insert into share_transactions
TransactionRow(call, k, member_id, type, n, amount) ==
  [id |-> <<call, k>>, member_id |-> member_id, transaction_type |-> type,
   number_of_shares |-> n, amount |-> amount]

\* lines 135-146: the purchase transaction of a new allocation
ShareCreateTransaction(c, stored) ==
  /\ calls[c].op = "Share.create" /\ calls[c].pc = "createTransaction"
  /\ UNCHANGED <<shares, dividends, dividend_distributions, started>>
  /\ IF stored
     THEN /\ share_transactions' = Append(share_transactions,
                 TransactionRow(calls[c].id, 1, calls[c].arg.member_id, "purchase",
                                calls[c].arg.number_of_shares,
                                calls[c].arg.number_of_shares
                                  * calls[c].arg.share_value))
          /\ Finish(c, 0, TRUE, "")
     ELSE /\ UNCHANGED share_transactions
          /\ Finish(c, 0, FALSE, "Failed to create share transaction")

\* ------------------------------------- updateShare (controller) + update()
ShareUpdateInputs == [id : 1..MaxShares, status : {"active", "suspended", "sold"}]

\* part_008 lines 170-191: Share.findById
ShareUpdateStart(d) ==
  /\ UNCHANGED <<shares, share_transactions, dividends, dividend_distributions>>
  /\ IF d.id > Len(shares)
     THEN FinishAtStart("Share.update", 0, FALSE, "Share not found")
     ELSE Proceed("Share.update", "update", d)

\* Share.js lines 203-232: validate, then update the row by id
ShareUpdateWrite(c, stored) ==
  /\ calls[c].op = "Share.update" /\ calls[c].pc = "update"
  /\ UNCHANGED <<share_transactions, dividends, dividend_distributions, started>>
  /\ IF calls[c].arg.status \notin SHARE_STATUS
     THEN /\ UNCHANGED shares
          /\ Finish(c, 0, FALSE, "Validation error")
     ELSE IF stored
     THEN /\ shares' = [shares EXCEPT ![calls[c].arg.id].status = calls[c].arg.status]
          /\ Finish(c, 0, TRUE, "")
     ELSE /\ UNCHANGED shares
          /\ Finish(c, 0, FALSE, "Failed to update share")

\* ---------------------------------------------------------- Share.transfer
\* via = "route": POST /api/v1/shares/transfer, behind validateRequest;
\* via = "model": Share.transfer called directly.
TransferData(from, to, n, via) ==
  [from_member_id |-> from, to_member_id |-> to, number_of_shares |-> n,
   transfer_price |-> 5, via |-> via]
TransferInputs ==
  {TransferData(from, to, n, via) :
     from \in {"A", "B"}, to \in {"A", "B"}, n \in {1, 2}, via \in {"route", "model"}}
    \cup {TransferData("A", "B", 0, "model"), TransferData("A", "B", 0, "route"),
          TransferData("A", "C", 1, "model"), TransferData("Z", "B", 1, "model")}

\* validators shareTransferSchema, lines 245-286
RouteTransferValid(d) ==
  /\ d.number_of_shares >= 1
  /\ d.transfer_price >= 0
  /\ d.from_member_id # d.to_member_id

\* Share.js shareTransferSchema, lines 53-59
ModelTransferValid(d) ==
  /\ d.number_of_shares >= 1
  /\ d.transfer_price >= 0

\* lines 235-263: validation and the two member lookups
TransferStart(d) ==
  /\ UNCHANGED <<shares, share_transactions, dividends, dividend_distributions>>
  /\ IF d.via = "route" /\ ~RouteTransferValid(d)
     THEN FinishAtStart("Share.transfer", 0, FALSE, "Validation failed")
     ELSE IF ~ModelTransferValid(d)
     THEN FinishAtStart("Share.transfer", 0, FALSE, "Validation error")
     ELSE IF d.from_member_id \notin Members \/ d.to_member_id \notin Members
     THEN FinishAtStart("Share.transfer", 0, FALSE, "One or both members not found")
     ELSE IF MemberStatus[d.from_member_id] # "active"
             \/ MemberStatus[d.to_member_id] # "active"
     THEN FinishAtStart("Share.transfer", 0, FALSE,
                        "Both members must be active for share transfer")
     ELSE Proceed("Share.transfer", "readShares", d)

\* line 277
InsufficientShares(totalShares, number_of_shares) == totalShares < number_of_shares

\* lines 265-279: read the source member's active holdings and compare
TransferReadShares(c, answered) ==
  /\ calls[c].op = "Share.transfer" /\ calls[c].pc = "readShares"
  /\ UNCHANGED <<shares, share_transactions, dividends, dividend_distributions,
                 started>>
  /\ LET totalShares == TotalActiveShares(shares, calls[c].arg.from_member_id)
     IN IF ~answered
        THEN Finish(c, 0, FALSE, "Error checking member shares")
        ELSE IF InsufficientShares(totalShares, calls[c].arg.number_of_shares)
        THEN Finish(c, 0, FALSE, "Insufficient shares for transfer")
        ELSE /\ calls' = [calls EXCEPT ![c].pc = "debit", ![c].loc = totalShares]
             /\ UNCHANGED outcome

\* lines 281-288: the source-side row
TransferDebit(c, stored) ==
  /\ calls[c].op = "Share.transfer" /\ calls[c].pc = "debit"
  /\ UNCHANGED <<shares, dividends, dividend_distributions, started>>
  /\ IF stored
     THEN /\ share_transactions' = Append(share_transactions,
                 TransactionRow(calls[c].id, 1, calls[c].arg.from_member_id,
                                "transfer", - calls[c].arg.number_of_shares,
                                - calls[c].arg.transfer_price))
          /\ calls' = [calls EXCEPT ![c].pc = "credit"]
          /\ UNCHANGED outcome
     ELSE /\ UNCHANGED share_transactions
          /\ Finish(c, 0, FALSE, "Failed to create share transaction")

\* lines 290-299: the destination-side row
TransferCredit(c, stored) ==
  /\ calls[c].op = "Share.transfer" /\ calls[c].pc = "credit"
  /\ UNCHANGED <<shares, dividends, dividend_distributions, started>>
  /\ IF stored
     THEN /\ share_transactions' = Append(share_transactions,
                 TransactionRow(calls[c].id, 2, calls[c].arg.to_member_id,
                                "transfer", calls[c].arg.number_of_shares,
                                calls[c].arg.transfer_price))
          /\ Finish(c, 0, TRUE, "")
     ELSE /\ UNCHANGED share_transactions
          /\ Finish(c, 0, FALSE, "Failed to create share transaction")

\* ======================================================================
\* Dividend engine: models/Dividend.js behind controllers/dividendController
\* ======================================================================
DIVIDEND_STATUS == {"declared", "approved", "paid", "cancelled", "pending"}
Banks == {"K"}

\* total_dividend_amount -1 stands for a request that carries no such field
\* (declareDividend builds dividendData without it).
DividendData(type, rate, total, record_date, status, bank) ==
  [dividend_year |-> 2024, dividend_type |-> type, dividend_rate |-> rate,
   total_dividend_amount |-> total, record_date |-> record_date,
   status |-> status, bank_id |-> bank]
DividendInputs ==
  {DividendData("annual", 50, 0, rd, st, "K") :
     rd \in {1, 2}, st \in {"", "declared", "approved"}}
    \cup {DividendData("annual", 50, -1, 1, "", "K"),
          DividendData("annual", 101, 0, 1, "", "K"),
          DividendData("annual", 50, 0, 1, "", "X")}

\* dividendValidationSchema, lines 25-36, on the fields the model keeps
DividendValid(d) ==
  /\ d.dividend_year >= 2000 /\ d.dividend_year <= 2100
  /\ d.dividend_type \in {"annual", "interim", "bonus", "special"}
  /\ d.dividend_rate >= 0 /\ d.dividend_rate <= 100
  /\ d.total_dividend_amount >= 0

\* Dividend.create lines 84-102: constructor, validate(), bank lookup
DeclareStart(d) ==
  /\ UNCHANGED <<shares, share_transactions, dividends, dividend_distributions>>
  /\ IF ~DividendValid(d)
     THEN FinishAtStart("Dividend.create", 0, FALSE, "Validation error")
     ELSE IF d.bank_id \notin Banks
     THEN FinishAtStart("Dividend.create", 0, FALSE, "Bank not found")
     ELSE Proceed("Dividend.create", "checkExisting", d)

\* rows of `dividends` with the same year, type and bank
SameKey(d) ==
  {i \in 1..Len(dividends) :
     /\ dividends[i].dividend_year = d.dividend_year
     /\ dividends[i].dividend_type = d.dividend_type
     /\ dividends[i].bank_id = d.bank_id}

\* .maybeSingle(): the row when exactly one matches, otherwise no data
ExistingDividend(d) == Cardinality(SameKey(d)) = 1

\* lines 104-115: the duplicate check
DeclareCheckExisting(c) ==
  /\ calls[c].op = "Dividend.create" /\ calls[c].pc = "checkExisting"
  /\ UNCHANGED <<shares, share_transactions, dividends, dividend_distributions,
                 started>>
  /\ IF ExistingDividend(calls[c].arg)
     THEN Finish(c, 0, FALSE, "dividend already declared")
     ELSE /\ calls' = [calls EXCEPT ![c].pc = "insert"]
          /\ UNCHANGED outcome

\* constructor line 56: this.status = data.status || PENDING
InitialStatus(data_status) == IF data_status = "" THEN "pending" ELSE data_status

\* lines 117-130: insert into `dividends`
DeclareInsert(c, stored) ==
  /\ calls[c].op = "Dividend.create" /\ calls[c].pc = "insert"
  /\ UNCHANGED <<shares, share_transactions, dividend_distributions, started>>
  /\ IF stored /\ Len(dividends) < MaxDividends
     THEN /\ dividends' = Append(dividends,
                 [id |-> Len(dividends) + 1,
                  dividend_year |-> calls[c].arg.dividend_year,
                  dividend_type |-> calls[c].arg.dividend_type,
                  dividend_rate |-> calls[c].arg.dividend_rate,
                  total_dividend_amount |-> calls[c].arg.total_dividend_amount,
                  record_date |-> calls[c].arg.record_date,
                  bank_id |-> calls[c].arg.bank_id,
                  status |-> InitialStatus(calls[c].arg.status)])
          /\ Finish(c, Len(dividends) + 1, TRUE, "")
     ELSE /\ UNCHANGED dividends
          /\ Finish(c, 0, FALSE, "Failed to create dividend declaration")

DividendIdInputs == 1..MaxDividends

\* ---------------------------------- updateDividend + Dividend.update
DividendUpdateInputs ==
  [id : DividendIdInputs, status : DIVIDEND_STATUS \cup {"void"}]

\* dividendUpdateSchema (part_011 lines 47-71, Dividend.js lines 38-45)
DividendUpdateValid(d) == d.status \in DIVIDEND_STATUS

\* part_010 lines 142-171: route validation, Dividend.findById
DividendUpdateStart(d) ==
  /\ UNCHANGED <<shares, share_transactions, dividends, dividend_distributions>>
  /\ IF ~DividendUpdateValid(d)
     THEN FinishAtStart("Dividend.update", d.id, FALSE, "Validation failed")
     ELSE IF d.id > Len(dividends)
     THEN FinishAtStart("Dividend.update", d.id, FALSE, "Dividend not found")
     ELSE ProceedWith("Dividend.update", "update", d, dividends[d.id])

\* Dividend.update lines 195-224: write the given fields of the row
DividendUpdateWrite(c, stored) ==
  /\ calls[c].op = "Dividend.update" /\ calls[c].pc = "update"
  /\ UNCHANGED <<shares, share_transactions, dividend_distributions, started>>
  /\ IF stored
     THEN /\ dividends' = [dividends EXCEPT ![calls[c].arg.id].status =
                                              calls[c].arg.status]
          /\ Finish(c, calls[c].arg.id, TRUE, "")
     ELSE /\ UNCHANGED dividends
          /\ Finish(c, calls[c].arg.id, FALSE, "Failed to update dividend")

\* --------------------------------- approveDividend + Dividend.approve
\* line 229
CanApprove(status) == status = "declared"

\* part_010 lines 192-222, Dividend.js lines 227-231
ApproveStart(id) ==
  /\ UNCHANGED <<shares, share_transactions, dividends, dividend_distributions>>
  /\ IF id > Len(dividends)
     THEN FinishAtStart("Dividend.approve", id, FALSE, "Dividend not found")
     ELSE IF ~CanApprove(dividends[id].status)
     THEN FinishAtStart("Dividend.approve", id, FALSE,
                        "Only declared dividends can be approved")
     ELSE ProceedWith("Dividend.approve", "approve", id, dividends[id])

\* Dividend.js lines 233-248
ApproveWrite(c, stored) ==
  /\ calls[c].op = "Dividend.approve" /\ calls[c].pc = "approve"
  /\ UNCHANGED <<shares, share_transactions, dividend_distributions, started>>
  /\ IF stored
     THEN /\ dividends' = [dividends EXCEPT ![calls[c].arg].status = "approved"]
          /\ Finish(c, calls[c].arg, TRUE, "")
     ELSE /\ UNCHANGED dividends
          /\ Finish(c, calls[c].arg, FALSE, "Failed to approve dividend")

\* --------------------------- distributeDividend + Dividend.distribute
\* A status check that also lets a paid dividend through.
CanDistributeAlsoPaid(status) == status \in {"approved", "paid"}

\* line 258
CanDistribute(status) == status = "approved"

\* part_010 lines 241-270, Dividend.js lines 256-260
DistributeStart(id) ==
  /\ UNCHANGED <<shares, share_transactions, dividends, dividend_distributions>>
  /\ IF id > Len(dividends)
     THEN FinishAtStart("Dividend.distribute", id, FALSE, "Dividend not found")
     ELSE IF ~CanDistribute(dividends[id].status)
     THEN FinishAtStart("Dividend.distribute", id, FALSE,
                        "Only approved dividends can be distributed")
     ELSE ProceedWith("Dividend.distribute", "readShares", id,
                      [this |-> dividends[id], rows |-> <<>>])

\* line 284, in hundredths of a unit:
\* (number_of_shares * share_value * dividend_rate) / 100
MemberDividend(number_of_shares, share_value, dividend_rate) ==
  number_of_shares * share_value * dividend_rate

\* lines 262-298: one distribution per active holding created on or before
\* the record date whose member is active
RECURSIVE DividendDistributions(_, _, _, _)
DividendDistributions(rows, this, call, k) ==
  IF rows = <<>> THEN <<>>
  ELSE LET share == Head(rows)
           rest == DividendDistributions(Tail(rows), this, call, k + 1)
       IN IF /\ share.status = "active"
             /\ share.created_at <= this.record_date
             /\ share.member_id \in Members
             /\ MemberStatus[share.member_id] = "active"
          THEN <<[id |-> <<call, k>>, dividend_id |-> this.id,
                  member_id |-> share.member_id,
                  number_of_shares |-> share.number_of_shares,
                  dividend_amount |-> MemberDividend(share.number_of_shares,
                                          share.share_value, this.dividend_rate),
                  payment_status |-> "pending"]>> \o rest
          ELSE rest

TotalDistributed(rows) == SumSeq([i \in 1..Len(rows) |-> rows[i].dividend_amount])

DistributeReadShares(c, answered) ==
  /\ calls[c].op = "Dividend.distribute" /\ calls[c].pc = "readShares"
  /\ UNCHANGED <<shares, share_transactions, dividends, dividend_distributions,
                 started>>
  /\ IF answered
     THEN /\ calls' = [calls EXCEPT
                 ![c].pc = "insert",
                 ![c].loc.rows = DividendDistributions(shares, calls[c].loc.this,
                                                       calls[c].id, 1)]
          /\ UNCHANGED outcome
     ELSE Finish(c, calls[c].arg, FALSE, "Failed to fetch eligible members")

\* lines 300-308: insert the batch
DistributeInsert(c, stored) ==
  /\ calls[c].op = "Dividend.distribute" /\ calls[c].pc = "insert"
  /\ UNCHANGED <<shares, share_transactions, dividends, started>>
  /\ IF stored
     THEN /\ dividend_distributions' = dividend_distributions \o calls[c].loc.rows
          /\ calls' = [calls EXCEPT ![c].pc = "markPaid"]
          /\ UNCHANGED outcome
     ELSE /\ UNCHANGED dividend_distributions
          /\ Finish(c, calls[c].arg, FALSE, "Failed to create dividend distributions")

\* lines 310-321: this.update({status: PAID, total_dividend_amount})
DistributeMarkPaid(c, stored) ==
  /\ calls[c].op = "Dividend.distribute" /\ calls[c].pc = "markPaid"
  /\ UNCHANGED <<shares, share_transactions, dividend_distributions, started>>
  /\ IF stored
     THEN /\ dividends' = [dividends EXCEPT
                 ![calls[c].arg].status = "paid",
                 ![calls[c].arg].total_dividend_amount =
                     TotalDistributed(calls[c].loc.rows)]
          /\ Finish(c, calls[c].arg, TRUE, "")
     ELSE /\ UNCHANGED dividends
          /\ Finish(c, calls[c].arg, FALSE, "Failed to update dividend")

\* ----------------------------------- cancelDividend + Dividend.cancel
\* line 354
CanCancel(status) == status # "paid"

\* part_010 lines 346-384, Dividend.js lines 352-356
CancelStart(id) ==
  /\ UNCHANGED <<shares, share_transactions, dividends, dividend_distributions>>
  /\ IF id > Len(dividends)
     THEN FinishAtStart("Dividend.cancel", id, FALSE, "Dividend not found")
     ELSE IF ~CanCancel(dividends[id].status)
     THEN FinishAtStart("Dividend.cancel", id, FALSE, "Cannot cancel paid dividends")
     ELSE ProceedWith("Dividend.cancel", "cancel", id, dividends[id])

\* Dividend.js lines 358-374
CancelWrite(c, stored) ==
  /\ calls[c].op = "Dividend.cancel" /\ calls[c].pc = "cancel"
  /\ UNCHANGED <<shares, share_transactions, dividend_distributions, started>>
  /\ IF stored
     THEN /\ dividends' = [dividends EXCEPT ![calls[c].arg].status = "cancelled"]
          /\ Finish(c, calls[c].arg, TRUE, "")
     ELSE /\ UNCHANGED dividends
          /\ Finish(c, calls[c].arg, FALSE, "Failed to cancel dividend")

\* ======================================================================
\* Fixed deposits: class FixedDeposit (models/Share.js lines 366-743) behind
\* controllers/fixedDepositController (part_009)
\* ======================================================================
\* Dates are whole months and amounts written by the deposit code are in
\* hundredths of a unit.  Tenures, start dates and the clock are multiples
\* of three months, so that the exponent 4 * (months / 12) of Math.pow is a
\* whole number of quarters and the amounts are computed exactly.
FD_STATUS == {"active", "matured", "premature_closed", "renewed", "pending"}

\* Table `customers` of the store (id -> status) and table `branches`
Holders == {"H", "I"}
HolderStatus == [h \in Holders |-> IF h = "I" THEN "inactive" ELSE "active"]
Branches == {"R"}

RECURSIVE Gcd(_, _)
Gcd(a, b) == IF b = 0 THEN a ELSE Gcd(b, a % b)

RECURSIVE Power(_, _)
Power(b, k) == IF k = 0 THEN 1 ELSE b * Power(b, k - 1)

\* Math.round(x * 100) / 100 of x = n / d, in hundredths: n and d already
\* carry the factor 100, halves round up
RoundCents(n, d) == (n \div d) + (IF 2 * (n % d) >= d THEN 1 ELSE 0)

\* principal * Math.pow(1 + rate / 100 / 4, 4 * (months / 12)), rounded to
\* two decimals (lines 457-462 and 682-691)
CompoundAmount(principal, rate, months) ==
  LET g == Gcd(400 + rate, 400)
      num == (400 + rate) \div g
      den == 400 \div g
      k == months \div 3
  IN RoundCents(principal * 100 * Power(num, k), Power(den, k))

\* calculateMaturityAmount, lines 445-463
calculateMaturityAmount(principal_amount, interest_rate, tenure_months) ==
  IF principal_amount = 0 \/ interest_rate = 0 \/ tenure_months = 0
  THEN 0
  ELSE CompoundAmount(principal_amount, interest_rate, tenure_months)

\* calculateMaturityDate, lines 466-473, as the constructor calls it on
\* line 424: this.start_date is assigned only on line 434, so it is still
\* undefined here and the date is counted from new Date()
calculateMaturityDate(start_date, tenure_months, clock) ==
  IF tenure_months = 0 THEN -1 ELSE clock + tenure_months

\* The argument of FixedDeposit.create; -1 stands for an absent
\* maturity_amount or start_date, "" for an absent status.
FDData(customer, principal, rate, tenure, amount, start, status, branch) ==
  [customer_id |-> customer, principal_amount |-> principal,
   interest_rate |-> rate, tenure_months |-> tenure, maturity_amount |-> amount,
   start_date |-> start, status |-> status, branch_id |-> branch]
FDInputs ==
  {FDData("H", 1000, r, t, -1, sd, st, "R") :
     r \in {50}, t \in {6}, sd \in {-1, 0}, st \in {"", "active"}}
    \cup {FDData("H", 1000, 0, 6, -1, -1, "", "R"),
          FDData("H", 1000, 40, 6, 100, -1, "", "R"),
          FDData("H", 500, 40, 6, -1, -1, "", "R"),
          FDData("H", 1000, 40, 3, -1, -1, "", "R"),
          FDData("I", 1000, 40, 6, -1, -1, "", "R"),
          FDData("Z", 1000, 40, 6, -1, -1, "", "R"),
          FDData("H", 1000, 40, 6, -1, -1, "", "X")}

\* constructor, lines 415-435
NewFixedDeposit(data, clock) ==
  [customer_id |-> data.customer_id,
   principal_amount |-> data.principal_amount,
   interest_rate |-> data.interest_rate,
   tenure_months |-> data.tenure_months,
   maturity_amount |->
     IF data.maturity_amount \notin {-1, 0} THEN data.maturity_amount
     ELSE calculateMaturityAmount(data.principal_amount, data.interest_rate,
                                  data.tenure_months),
   maturity_date |->
     calculateMaturityDate(data.start_date, data.tenure_months, clock),
   status |-> IF data.status = "" THEN "pending" ELSE data.status,
   branch_id |-> data.branch_id,
   start_date |-> IF data.start_date = -1 THEN clock ELSE data.start_date]

\* fdValidationSchema, lines 390-403, on the fields the model keeps
FDValid(fd) ==
  /\ fd.principal_amount >= 1000
  /\ fd.interest_rate >= 0 /\ fd.interest_rate <= 50
  /\ fd.tenure_months >= 6 /\ fd.tenure_months <= 120
  /\ fd.maturity_amount >= 0

\* FixedDeposit.create lines 485-514: constructor, validate(), customer and
\* branch lookups
FDCreateStart(data) ==
  /\ UNCHANGED depositVars
  /\ LET fd == NewFixedDeposit(data, today)
     IN IF ~FDValid(fd)
        THEN FinishAtStart("FixedDeposit.create", 0, FALSE, "Validation error")
        ELSE IF fd.customer_id \notin Holders
        THEN FinishAtStart("FixedDeposit.create", 0, FALSE, "Customer not found")
        ELSE IF HolderStatus[fd.customer_id] # "active"
        THEN FinishAtStart("FixedDeposit.create", 0, FALSE,
                           "Customer account is not active")
        ELSE IF fd.branch_id \notin Branches
        THEN FinishAtStart("FixedDeposit.create", 0, FALSE, "Branch not found")
        ELSE Proceed("FixedDeposit.create", "insert", fd)

\* lines 516-529: insert into `fixed_deposits`
FDCreateInsert(c, stored) ==
  /\ calls[c].op = "FixedDeposit.create" /\ calls[c].pc = "insert"
  /\ UNCHANGED <<today, started>>
  /\ IF stored /\ Len(fixed_deposits) < MaxDeposits
     THEN /\ fixed_deposits' = Append(fixed_deposits,
                 [id |-> Len(fixed_deposits) + 1] @@ calls[c].arg)
          /\ Finish(c, Len(fixed_deposits) + 1, TRUE, "")
     ELSE /\ UNCHANGED fixed_deposits
          /\ Finish(c, 0, FALSE, "Failed to create fixed deposit")

DepositIdInputs == 1..MaxDeposits

\* ------------------------------ updateFixedDeposit + FixedDeposit.update
\* The body of PUT /fixed-deposits/:id: a status, an interest rate, or
\* both; "" and -1 stand for an absent field.
FDUpdateData(id, status, interest_rate) ==
  [id |-> id, status |-> status, interest_rate |-> interest_rate]
FDUpdateInputs ==
  {FDUpdateData(id, st, -1) : id \in DepositIdInputs, st \in FD_STATUS \cup {"void"}}
    \cup {FDUpdateData(id, "", r) : id \in DepositIdInputs, r \in {40, 51}}
    \cup {FDUpdateData(id, "", -1) : id \in DepositIdInputs}

\* fdUpdateSchema (fixedDepositValidator.js lines 47-73, Share.js 405-412):
\* at least one field, a known status, a rate from 0.1 to 50
FDUpdateValid(d) ==
  /\ d.status # "" \/ d.interest_rate # -1
  /\ d.status = "" \/ d.status \in FD_STATUS
  /\ d.interest_rate = -1 \/ (d.interest_rate >= 1 /\ d.interest_rate <= 50)

\* part_009 lines 175-191: route validation, FixedDeposit.findById
FDUpdateStart(d) ==
  /\ UNCHANGED depositVars
  /\ IF ~FDUpdateValid(d)
     THEN FinishAtStart("FixedDeposit.update", d.id, FALSE, "Validation failed")
     ELSE IF d.id > Len(fixed_deposits)
     THEN FinishAtStart("FixedDeposit.update", d.id, FALSE,
                        "Fixed Deposit not found")
     ELSE Proceed("FixedDeposit.update", "update", d)

\* FixedDeposit.update lines 611-641: write the given fields of the row
FDUpdateWrite(c, stored) ==
  /\ calls[c].op = "FixedDeposit.update" /\ calls[c].pc = "update"
  /\ UNCHANGED <<today, started>>
  /\ IF stored
     THEN /\ fixed_deposits' = [fixed_deposits EXCEPT
                 ![calls[c].arg.id].status =
                     IF calls[c].arg.status = "" THEN @ ELSE calls[c].arg.status,
                 ![calls[c].arg.id].interest_rate =
                     IF calls[c].arg.interest_rate = -1 THEN @
                     ELSE calls[c].arg.interest_rate]
          /\ Finish(c, calls[c].arg.id, TRUE, "")
     ELSE /\ UNCHANGED fixed_deposits
          /\ Finish(c, calls[c].arg.id, FALSE, "Failed to update fixed deposit")

\* ------------------------------ matureFixedDeposit + FixedDeposit.mature
\* lines 646 and 675
IsActiveFD(status) == status = "active"

\* part_009 lines 218-240, Share.js lines 644-648
FDMatureStart(id) ==
  /\ UNCHANGED depositVars
  /\ IF id > Len(fixed_deposits)
     THEN FinishAtStart("FixedDeposit.mature", id, FALSE, "Fixed Deposit not found")
     ELSE IF ~IsActiveFD(fixed_deposits[id].status)
     THEN FinishAtStart("FixedDeposit.mature", id, FALSE,
                        "Only active FDs can be matured")
     ELSE Proceed("FixedDeposit.mature", "mature", id)

\* Share.js lines 650-665
FDMatureWrite(c, stored) ==
  /\ calls[c].op = "FixedDeposit.mature" /\ calls[c].pc = "mature"
  /\ UNCHANGED <<today, started>>
  /\ IF stored
     THEN /\ fixed_deposits' = [fixed_deposits EXCEPT ![calls[c].arg].status =
                                                        "matured"]
          /\ Finish(c, calls[c].arg, TRUE, "")
     ELSE /\ UNCHANGED fixed_deposits
          /\ Finish(c, calls[c].arg, FALSE, "Failed to mature fixed deposit")

\* ------------------------------------------- FixedDeposit.prematureClose
PenaltyInputs == {0, 50}

\* lines 680-685 and 691, for a deposit read at `clock`
PrematureAmount(this, penaltyRate, clock) ==
  LET monthsCompleted == clock - this.start_date
      reducedRate == IF this.interest_rate - penaltyRate > 0
                     THEN this.interest_rate - penaltyRate ELSE 0
  IN CompoundAmount(this.principal_amount, reducedRate, monthsCompleted)

\* findById, then lines 673-685: the status check and the amount, both on
\* the copy of the row that findById returned
FDPrematureStart(id, penaltyRate) ==
  /\ UNCHANGED depositVars
  /\ IF id > Len(fixed_deposits)
     THEN FinishAtStart("FixedDeposit.prematureClose", id, FALSE,
                        "Fixed Deposit not found")
     ELSE IF ~IsActiveFD(fixed_deposits[id].status)
     THEN FinishAtStart("FixedDeposit.prematureClose", id, FALSE,
                        "Only active FDs can be closed prematurely")
     ELSE ProceedWith("FixedDeposit.prematureClose", "close", id,
                      PrematureAmount(fixed_deposits[id], penaltyRate, today))

\* lines 687-704
FDPrematureWrite(c, stored) ==
  /\ calls[c].op = "FixedDeposit.prematureClose" /\ calls[c].pc = "close"
  /\ UNCHANGED <<today, started>>
  /\ IF stored
     THEN /\ fixed_deposits' = [fixed_deposits EXCEPT
                 ![calls[c].arg].status = "premature_closed",
                 ![calls[c].arg].maturity_amount = calls[c].loc]
          /\ Finish(c, calls[c].arg, TRUE, "")
     ELSE /\ UNCHANGED fixed_deposits
          /\ Finish(c, calls[c].arg, FALSE,
                    "Failed to close fixed deposit prematurely")

\* A quarter passes on the clock that new Date() and moment() read.
QuarterPasses ==
  /\ today + 3 <= MaxMonths
  /\ today' = today + 3
  /\ UNCHANGED <<fixed_deposits, calls, started, outcome>>

InitDeposits ==
  /\ fixed_deposits = <<>>
  /\ today = 0

\* ======================================================================
\* Customer controller (part_001): the in-memory fallback store used when
\* the database does not answer.  createCustomer reads the store, awaits
\* the database and then writes; getCustomerById reads the store only after
\* its await, so it is one step.
\* ======================================================================
\* `customer_${n}`
CustomerKey(n) == <<"customer_", n>>

NoCustomer == [id |-> <<"", 0>>, customer_id |-> <<"", 0>>, email |-> ""]
Reply(op, status, storage, id, data) ==
  [op |-> op, status |-> status, storage |-> storage, id |-> id, data |-> data]

CustomerBodies ==
  {[name |-> "N", email |-> e] : e \in {"p@x", "q@x", "r@x"}}
    \cup {[name |-> "", email |-> "p@x"], [name |-> "N", email |-> ""]}

\* line 23: customers.find(c => c.email === email)
ExistingCustomer(email) ==
  \E i \in 1..Len(fallbackCustomers) : fallbackCustomers[i].email = email

\* createCustomer lines 13-29: the checks made before the database call
createCustomerCheck(body) ==
  /\ UNCHANGED <<fallbackCustomers, fallbackIdCounter>>
  /\ IF body.name = "" \/ body.email = ""
     THEN /\ reply' = Reply("createCustomer", 400, "", <<"", 0>>, NoCustomer)
          /\ UNCHANGED creating
     ELSE IF ExistingCustomer(body.email)
     THEN /\ reply' = Reply("createCustomer", 400, "", <<"", 0>>, NoCustomer)
          /\ UNCHANGED creating
     ELSE /\ Len(creating) < MaxCreating
          /\ creating' = Append(creating, body.email)
          /\ UNCHANGED reply

\* lines 59-62: id takes the counter and increments it, customer_id then
\* reads the incremented counter
NewCustomer(counter, email) ==
  [id |-> CustomerKey(counter), customer_id |-> CustomerKey(counter + 1),
   email |-> email]

\* createCustomer lines 34-84, for the i-th waiting request: the database
\* stored the row (inserted), or the fallback store takes it
createCustomerStore(i, inserted) ==
  /\ i \in 1..Len(creating)
  /\ creating' = [k \in 1..(Len(creating) - 1) |->
                    IF k < i THEN creating[k] ELSE creating[k + 1]]
  /\ IF inserted
     THEN /\ reply' = Reply("createCustomer", 201, "database", <<"", 0>>,
                            [NoCustomer EXCEPT !.email = creating[i]])
          /\ UNCHANGED <<fallbackCustomers, fallbackIdCounter>>
     ELSE /\ Len(fallbackCustomers) < MaxFallback
          /\ fallbackCustomers' = Append(fallbackCustomers,
                 NewCustomer(fallbackIdCounter, creating[i]))
          /\ fallbackIdCounter' = fallbackIdCounter + 1
          /\ reply' = Reply("createCustomer", 201, "fallback",
                            CustomerKey(fallbackIdCounter),
                            NewCustomer(fallbackIdCounter, creating[i]))

CustomerKeyInputs == {CustomerKey(n) : n \in 1..(MaxFallback + 2)}

\* line 156: customers.find(c => c.id === id || c.customer_id === id)
Matching(id) ==
  {i \in 1..Len(fallbackCustomers) :
     fallbackCustomers[i].id = id \/ fallbackCustomers[i].customer_id = id}
FallbackCustomer(id) ==
  IF Matching(id) = {} THEN NoCustomer
  ELSE fallbackCustomers[CHOOSE i \in Matching(id) :
                           \A j \in Matching(id) : i <= j]

\* getCustomerById lines 136-180 for an id the database holds no row of: the
\* database call returns an error (the fallback is not consulted) or
\* throws (the catch block reads the fallback store)
getCustomerById(id, thrown) ==
  /\ UNCHANGED <<fallbackCustomers, fallbackIdCounter, creating>>
  /\ IF thrown /\ Matching(id) # {}
     THEN reply' = Reply("getCustomerById", 200, "fallback", id,
                         FallbackCustomer(id))
     ELSE reply' = Reply("getCustomerById", 404, "", id, NoCustomer)

InitFallback ==
  /\ fallbackCustomers = <<>>
  /\ fallbackIdCounter = 1
  /\ creating = <<>>
  /\ reply = Reply("", 0, "", <<"", 0>>, NoCustomer)

\* ======================================================================
\* Loan lifecycle (spec section 4.2): issue and applyRepayment.  Each is one
\* indivisible step per loan (spec section 5).
\* ======================================================================
LOAN_STATUS == {"pending", "approved", "active", "closed", "defaulted"}

PrincipalInputs == {2, 3}
RepaymentAmountInputs == {1, 2, 3}
LoanIdInputs == 1..(MaxLoans + 1)

NoReceipt == [loan_id |-> 0, amount |-> 0, ok |-> FALSE, error |-> ""]
Receipt(loan_id, amount, ok, error) ==
  [loan_id |-> loan_id, amount |-> amount, ok |-> ok, error |-> error]

\* A check for loans in a status that no loan ever has.
BorrowerHasOngoingLoan(borrower_id) ==
  \E i \in 1..Len(loans) :
    loans[i].borrower_id = borrower_id /\ loans[i].repayment_status = "ongoing"

\* the borrower already holds a loan that is not closed
BorrowerHasActiveLoan(borrower_id) ==
  \E i \in 1..Len(loans) :
    loans[i].borrower_id = borrower_id /\ loans[i].repayment_status # "closed"

\* issue(borrower_id, principal, rate, tenure_months)
IssueLoan(borrower_id, principal) ==
  /\ Len(loans) < MaxLoans
  /\ UNCHANGED <<repayments, receipt, calls, started>>
  /\ IF BorrowerHasActiveLoan(borrower_id)
     THEN /\ outcome' = Outcome("issue", 0, FALSE, "BorrowerHasActiveLoan")
          /\ UNCHANGED loans
     ELSE IF borrower_id \notin Members \/ MemberStatus[borrower_id] # "active"
     THEN /\ outcome' = Outcome("issue", 0, FALSE, "BorrowerInactive")
          /\ UNCHANGED loans
     ELSE /\ loans' = Append(loans,
                 [id |-> Len(loans) + 1, borrower_id |-> borrower_id,
                  principal_amount |-> principal,
                  outstanding_amount |-> principal,
                  repayment_status |-> "active"])
          /\ outcome' = Outcome("issue", Len(loans) + 1, TRUE, "")

\* A closed-loan test that lets a closed loan through.
LoanAlreadyClosedOnlyDefaulted(repayment_status) == repayment_status = "defaulted"

\* LoanAlreadyClosed: status closed or defaulted
LoanAlreadyClosed(repayment_status) == repayment_status \in {"closed", "defaulted"}

\* An overpayment test that is off by one.
OverpaymentExceedsOutstandingByTwo(amount, outstanding_amount) ==
  amount > outstanding_amount + 1

\* OverpaymentExceedsOutstanding: amount > outstanding_amount
OverpaymentExceedsOutstanding(amount, outstanding_amount) ==
  amount > outstanding_amount

\* applyRepayment(loan_id, amount)
ApplyRepayment(loan_id, amount) ==
  /\ Len(repayments) < MaxRepayments
  /\ UNCHANGED <<outcome, calls, started>>
  /\ IF loan_id > Len(loans)
     THEN /\ receipt' = Receipt(loan_id, amount, FALSE, "LoanNotFound")
          /\ UNCHANGED <<loans, repayments>>
     ELSE IF LoanAlreadyClosed(loans[loan_id].repayment_status)
     THEN /\ receipt' = Receipt(loan_id, amount, FALSE, "LoanAlreadyClosed")
          /\ UNCHANGED <<loans, repayments>>
     ELSE IF OverpaymentExceedsOutstanding(amount, loans[loan_id].outstanding_amount)
     THEN /\ receipt' = Receipt(loan_id, amount, FALSE,
                                "OverpaymentExceedsOutstanding")
          /\ UNCHANGED <<loans, repayments>>
     ELSE /\ loans' = [loans EXCEPT
                 ![loan_id].outstanding_amount = @ - amount,
                 ![loan_id].repayment_status =
                     IF loans[loan_id].outstanding_amount - amount = 0
                     THEN "closed" ELSE @]
          /\ repayments' = Append(repayments,
                 [id |-> Len(repayments) + 1, loan_id |-> loan_id,
                  amount |-> amount])
          /\ receipt' = Receipt(loan_id, amount, TRUE, "")

InitLoans ==
  /\ loans = <<>>
  /\ repayments = <<>>
  /\ receipt = NoReceipt

NoOutcome == Outcome("", 0, FALSE, "")

InitStore ==
  /\ shares = <<>>
  /\ share_transactions = <<>>
  /\ dividends = <<>>
  /\ dividend_distributions = <<>>
  /\ calls = [c \in Slots |-> Idle]
  /\ started = 0
  /\ outcome = NoOutcome

Init == InitLedger /\ InitStore /\ InitDeposits /\ InitLoans /\ InitFallback

NextLedger ==
  \/ \E email \in Emails : CreateCustomer(email) /\ UNCHANGED <<depositVars, loanVars, fallbackVars>>
  \/ \E c \in CustomerIdInputs, d \in DepositInputs :
       CreateAccount(c, d) /\ UNCHANGED <<depositVars, loanVars, fallbackVars>>
  \/ \E req \in TransactionRequests : CreateTransaction(req)
       /\ UNCHANGED <<depositVars, loanVars, fallbackVars>>

SpecLedger == Init /\ [][NextLedger]_vars

NextShares ==
  \/ \E d \in ShareInputs : ShareCreateStart(d) /\ UNCHANGED <<ledgerVars, depositVars, loanVars, fallbackVars>>
  \/ \E c \in Slots, b \in BOOLEAN : ShareCreateInsert(c, b) /\ UNCHANGED <<ledgerVars, depositVars, loanVars, fallbackVars>>
  \/ \E c \in Slots, b \in BOOLEAN : ShareCreateTransaction(c, b) /\ UNCHANGED <<ledgerVars, depositVars, loanVars, fallbackVars>>
  \/ \E d \in ShareUpdateInputs : ShareUpdateStart(d) /\ UNCHANGED <<ledgerVars, depositVars, loanVars, fallbackVars>>
  \/ \E c \in Slots, b \in BOOLEAN : ShareUpdateWrite(c, b) /\ UNCHANGED <<ledgerVars, depositVars, loanVars, fallbackVars>>
  \/ \E d \in TransferInputs : TransferStart(d) /\ UNCHANGED <<ledgerVars, depositVars, loanVars, fallbackVars>>
  \/ \E c \in Slots, b \in BOOLEAN : TransferReadShares(c, b) /\ UNCHANGED <<ledgerVars, depositVars, loanVars, fallbackVars>>
  \/ \E c \in Slots, b \in BOOLEAN : TransferDebit(c, b) /\ UNCHANGED <<ledgerVars, depositVars, loanVars, fallbackVars>>
  \/ \E c \in Slots, b \in BOOLEAN : TransferCredit(c, b) /\ UNCHANGED <<ledgerVars, depositVars, loanVars, fallbackVars>>

SpecShares == Init /\ [][NextShares]_vars

\* The share register the dividend engine reads: allocations recorded by
\* Share.create in earlier requests (two active holdings, of members A and B,
\* the second one opened a day later), with their purchase rows.
Registry ==
  <<[id |-> 1, member_id |-> "A", number_of_shares |-> 1, share_value |-> 1,
     total_amount |-> 1, status |-> "active", created_at |-> 1],
    [id |-> 2, member_id |-> "B", number_of_shares |-> 1, share_value |-> 1,
     total_amount |-> 1, status |-> "active", created_at |-> 2]>>
RegistryPurchases ==
  <<TransactionRow(0, 1, "A", "purchase", 1, 1),
    TransactionRow(0, 2, "B", "purchase", 1, 1)>>

InitDividends ==
  /\ InitLedger
  /\ InitDeposits
  /\ InitLoans
  /\ InitFallback
  /\ shares = Registry
  /\ share_transactions = RegistryPurchases
  /\ dividends = <<>>
  /\ dividend_distributions = <<>>
  /\ calls = [c \in Slots |-> Idle]
  /\ started = 0
  /\ outcome = NoOutcome

NextDividends ==
  \/ \E d \in DividendInputs : DeclareStart(d) /\ UNCHANGED <<ledgerVars, depositVars, loanVars, fallbackVars>>
  \/ \E c \in Slots : DeclareCheckExisting(c) /\ UNCHANGED <<ledgerVars, depositVars, loanVars, fallbackVars>>
  \/ \E c \in Slots, b \in BOOLEAN : DeclareInsert(c, b) /\ UNCHANGED <<ledgerVars, depositVars, loanVars, fallbackVars>>
  \/ \E d \in DividendUpdateInputs : DividendUpdateStart(d) /\ UNCHANGED <<ledgerVars, depositVars, loanVars, fallbackVars>>
  \/ \E c \in Slots, b \in BOOLEAN : DividendUpdateWrite(c, b) /\ UNCHANGED <<ledgerVars, depositVars, loanVars, fallbackVars>>
  \/ \E id \in DividendIdInputs : ApproveStart(id) /\ UNCHANGED <<ledgerVars, depositVars, loanVars, fallbackVars>>
  \/ \E c \in Slots, b \in BOOLEAN : ApproveWrite(c, b) /\ UNCHANGED <<ledgerVars, depositVars, loanVars, fallbackVars>>
  \/ \E id \in DividendIdInputs : DistributeStart(id) /\ UNCHANGED <<ledgerVars, depositVars, loanVars, fallbackVars>>
  \/ \E c \in Slots, b \in BOOLEAN : DistributeReadShares(c, b) /\ UNCHANGED <<ledgerVars, depositVars, loanVars, fallbackVars>>
  \/ \E c \in Slots, b \in BOOLEAN : DistributeInsert(c, b) /\ UNCHANGED <<ledgerVars, depositVars, loanVars, fallbackVars>>
  \/ \E c \in Slots, b \in BOOLEAN : DistributeMarkPaid(c, b) /\ UNCHANGED <<ledgerVars, depositVars, loanVars, fallbackVars>>
  \/ \E id \in DividendIdInputs : CancelStart(id) /\ UNCHANGED <<ledgerVars, depositVars, loanVars, fallbackVars>>
  \/ \E c \in Slots, b \in BOOLEAN : CancelWrite(c, b) /\ UNCHANGED <<ledgerVars, depositVars, loanVars, fallbackVars>>

SpecDividends == InitDividends /\ [][NextDividends]_vars

NextDeposits ==
  \/ \E d \in FDInputs : FDCreateStart(d) /\ UNCHANGED <<ledgerVars, registryVars, loanVars, fallbackVars>>
  \/ \E c \in Slots, b \in BOOLEAN :
       FDCreateInsert(c, b) /\ UNCHANGED <<ledgerVars, registryVars, loanVars, fallbackVars>>
  \/ \E d \in FDUpdateInputs : FDUpdateStart(d) /\ UNCHANGED <<ledgerVars, registryVars, loanVars, fallbackVars>>
  \/ \E c \in Slots, b \in BOOLEAN :
       FDUpdateWrite(c, b) /\ UNCHANGED <<ledgerVars, registryVars, loanVars, fallbackVars>>
  \/ \E id \in DepositIdInputs :
       FDMatureStart(id) /\ UNCHANGED <<ledgerVars, registryVars, loanVars, fallbackVars>>
  \/ \E c \in Slots, b \in BOOLEAN :
       FDMatureWrite(c, b) /\ UNCHANGED <<ledgerVars, registryVars, loanVars, fallbackVars>>
  \/ \E id \in DepositIdInputs, p \in PenaltyInputs :
       FDPrematureStart(id, p) /\ UNCHANGED <<ledgerVars, registryVars, loanVars, fallbackVars>>
  \/ \E c \in Slots, b \in BOOLEAN :
       FDPrematureWrite(c, b) /\ UNCHANGED <<ledgerVars, registryVars, loanVars, fallbackVars>>
  \/ QuarterPasses /\ UNCHANGED <<ledgerVars, registryVars, loanVars, fallbackVars>>

SpecDeposits == Init /\ [][NextDeposits]_vars

NextLoans ==
  \/ \E b \in MemberIdInputs, p \in PrincipalInputs :
       IssueLoan(b, p)
       /\ UNCHANGED <<ledgerVars, registryVars, depositVars, fallbackVars>>
  \/ \E id \in LoanIdInputs, a \in RepaymentAmountInputs :
       ApplyRepayment(id, a)
       /\ UNCHANGED <<ledgerVars, registryVars, depositVars, fallbackVars>>

SpecLoans == Init /\ [][NextLoans]_vars

NextCustomers ==
  \/ \E body \in CustomerBodies :
       createCustomerCheck(body)
       /\ UNCHANGED <<ledgerVars, storeVars, depositVars, loanVars>>
  \/ \E i \in 1..MaxCreating, inserted \in BOOLEAN :
       createCustomerStore(i, inserted)
       /\ UNCHANGED <<ledgerVars, storeVars, depositVars, loanVars>>
  \/ \E id \in CustomerKeyInputs, thrown \in BOOLEAN :
       getCustomerById(id, thrown)
       /\ UNCHANGED <<ledgerVars, storeVars, depositVars, loanVars>>

SpecCustomers == Init /\ [][NextCustomers]_vars

\* ======================================================================
\* Properties of the account ledger (checked under SpecLedger)
\* ======================================================================
\* A history read that returns the newest entry first.
TxOfNewestFirst(id) ==
  LET sel == SelectSeq(transactions, LAMBDA t : t.account_id = id)
  IN [i \in 1..Len(sel) |-> sel[Len(sel) + 1 - i]]

\* GET /api/v1/accounts/:id/transactions, line 556
TxOf(id) == SelectSeq(transactions, LAMBDA t : t.account_id = id)
AmountsOf(id, type) ==
  LET sel == SelectSeq(transactions, LAMBDA t : t.account_id = id /\ t.type = type)
  IN SumSeq([i \in 1..Len(sel) |-> sel[i].amount])

\* The handler of POST /api/v1/transactions ran in this step on a request
\* that passed validation (lines 468-497) for stored account k.
HandledValid(k) ==
  /\ vars' # vars
  /\ response'.route = "transactions"
  /\ k = FindAccount(response'.req.account_id)
  /\ k # 0
  /\ Truthy(response'.req.amount)
  /\ parseFloat(response'.req.amount) > 0
  /\ response'.req.type \in {"deposit", "withdrawal", "transfer"}

C2_NeverBelowMinimum ==
  \A k \in 1..Len(accounts) : accounts[k].balance >= MinimumBalance

\* C3: a withdrawal succeeds only against the balance that is stored at the
\* moment its new balance is written: the amount is covered by that balance,
\* the ledger entry records it as balance_before, and the stored balance
\* drops by exactly the amount.  Two debits that the balance cannot both
\* fund therefore never both succeed.
C3_DebitCheckedAndWrittenTogether ==
  [][\A k \in 1..Len(accounts) :
       (HandledValid(k) /\ response'.req.type = "withdrawal"
                        /\ response'.status = 201)
       => /\ accounts[k].balance >= parseFloat(response'.req.amount)
          /\ accounts'[k].balance =
               accounts[k].balance - parseFloat(response'.req.amount)
          /\ transactions'[Len(transactions')].balance_before = accounts[k].balance
          /\ accounts'[k].balance >= 0]_vars

\* Two debits competed for the same funds: the last ledger entry is a
\* withdrawal from a balance that covered either request alone, and the
\* other request has just been refused.
C3_Witness ==
  /\ response.route = "transactions"
  /\ response.status = 400
  /\ response.error = "Insufficient funds"
  /\ transactions # <<>>
  /\ LET t == transactions[Len(transactions)]
     IN /\ t.type = "withdrawal"
        /\ t.account_id = response.req.account_id
        /\ t.balance_before >= parseFloat(response.req.amount)
        /\ t.balance_before < t.amount + parseFloat(response.req.amount)

\* C4: a successful transfer debits the source account by the amount and
\* credits another account by the same amount in the same step.
C4_TransferMovesFunds ==
  [][\A k \in 1..Len(accounts) :
       (HandledValid(k) /\ response'.req.type = "transfer"
                        /\ response'.status = 201)
       => /\ accounts'[k].balance =
               accounts[k].balance - parseFloat(response'.req.amount)
          /\ \E j \in 1..Len(accounts) :
               /\ j # k
               /\ accounts'[j].balance =
                    accounts[j].balance + parseFloat(response'.req.amount)]_vars

\* C5: a withdrawal of more than the current balance is answered 400
\* "Insufficient funds" and leaves the accounts (balance, updated_at) and the
\* ledger exactly as they were.
C5_OverdraftRejectedUnchanged ==
  [][\A k \in 1..Len(accounts) :
       (HandledValid(k) /\ response'.req.type = "withdrawal"
                        /\ parseFloat(response'.req.amount) > accounts[k].balance)
       => /\ response'.status = 400
          /\ response'.error = "Insufficient funds"
          /\ accounts' = accounts
          /\ transactions' = transactions
          /\ transactionIdCounter' = transactionIdCounter]_vars

C5_Witness ==
  /\ response.route = "transactions"
  /\ response.error = "Insufficient funds"
  /\ \E k \in 1..Len(accounts) :
       /\ accounts[k].id = response.req.account_id
       /\ accounts[k].balance = 1
       /\ parseFloat(response.req.amount) = 2

\* ======================================================================
\* Properties of the share registry (checked under SpecShares)
\* ======================================================================
InFlight(k) == \E c \in Slots : calls[c] # Idle /\ calls[c].id = k
TransferRows == SelectSeq(share_transactions, LAMBDA r : r.transaction_type = "transfer")
HasRow(k, side) ==
  \E i \in 1..Len(TransferRows) : TransferRows[i].id = <<k, side>>
RowOf(k, side) ==
  TransferRows[CHOOSE i \in 1..Len(TransferRows) : TransferRows[i].id = <<k, side>>]

\* shares a member has been allocated (rows of `shares`, any status)
RECURSIVE Allocated(_, _)
Allocated(rows, m) ==
  IF rows = <<>> THEN 0
  ELSE (IF Head(rows).member_id = m THEN Head(rows).number_of_shares ELSE 0)
       + Allocated(Tail(rows), m)

\* shares moved out of (sign = -1) or into (sign = 1) a member by transfers
RECURSIVE Transferred(_, _, _)
Transferred(rows, m, sign) ==
  IF rows = <<>> THEN 0
  ELSE (IF Head(rows).member_id = m /\ Head(rows).number_of_shares * sign > 0
        THEN Head(rows).number_of_shares * sign ELSE 0)
       + Transferred(Tail(rows), m, sign)

\* C6: the two rows written by a successful transfer of N shares lower the
\* source member's aggregate (the signed sum of the member's rows) by
\* exactly N, raise the destination member's aggregate by exactly N, and sum
\* to zero.
C6_TransferMovesExactlyN ==
  \A k \in 1..MaxCalls :
    (HasRow(k, 1) /\ HasRow(k, 2)) =>
      LET pair == <<RowOf(k, 1), RowOf(k, 2)>>
          n == RowOf(k, 2).number_of_shares
      IN /\ SumShares(pair, RowOf(k, 1).member_id) = - n
         /\ SumShares(pair, RowOf(k, 2).member_id) = n
         /\ RowOf(k, 1).number_of_shares + RowOf(k, 2).number_of_shares = 0

\* C7: once a transfer request has returned or thrown, its source-side row
\* is stored if and only if its destination-side row is stored.
C7_BothSidesOrNeither ==
  \A k \in 1..MaxCalls :
    ~InFlight(k) => (HasRow(k, 1) <=> HasRow(k, 2))

\* C8: transfers never create shares: the number of shares transferred out
\* of a member never exceeds the shares allocated to the member plus the
\* shares transferred in, so the member's aggregate never goes negative.
C8_NeverTransfersMoreThanHeld ==
  \A m \in Members :
    Transferred(TransferRows, m, -1)
      <= Allocated(shares, m) + Transferred(TransferRows, m, 1)

\* ======================================================================
\* Properties of the dividend engine (checked under SpecDividends)
\* ======================================================================
\* the status changes of the dividend state machine
AllowedTransition(from, to) ==
  \/ from = "pending" /\ to = "declared"
  \/ from = "declared" /\ to = "approved"
  \/ from = "approved" /\ to = "paid"
  \/ to = "cancelled" /\ from \notin {"paid", "cancelled"}

\* C9: every change of a stored dividend's status is a step of the state
\* machine pending -> declared -> approved -> paid, or a cancellation of a
\* dividend that is not paid.
C9_StatusFollowsStateMachine ==
  [][\A i \in 1..Len(dividends) :
       dividends'[i].status # dividends[i].status
       => AllowedTransition(dividends[i].status, dividends'[i].status)]_vars

\* In this step a distribute request for dividend id has read the dividend
\* (findById) and run the status check of distribute().
DistributeRequested(id) ==
  \/ /\ calls' = calls
     /\ outcome' # outcome
     /\ outcome'.op = "Dividend.distribute"
     /\ outcome'.ref = id
  \/ \E c \in Slots :
       /\ calls[c] = Idle
       /\ calls'[c] # Idle
       /\ calls'[c].op = "Dividend.distribute"
       /\ calls'[c].arg = id

\* C10: a distribute request that finds the dividend already paid throws
\* "Only approved dividends can be distributed" at once, without going on to
\* any store write, and leaves dividend_distributions as it was; every
\* distribute request that does go on has read the status approved.
C10_DistributeOnPaidFails ==
  /\ [][\A id \in DividendIdInputs :
          (id <= Len(dividends) /\ dividends[id].status = "paid"
                                /\ DistributeRequested(id))
          => /\ outcome' = Outcome("Dividend.distribute", id, FALSE,
                                   "Only approved dividends can be distributed")
             /\ calls' = calls
             /\ dividend_distributions' = dividend_distributions
             /\ dividends' = dividends]_vars
  /\ [](\A c \in Slots :
          (calls[c] # Idle /\ calls[c].op = "Dividend.distribute")
          => calls[c].loc.this.status = "approved")

\* A second distribute() on a dividend that the first one paid has just
\* been refused; the rows of the first call are the only ones.
C10_Witness ==
  /\ outcome = Outcome("Dividend.distribute", 1, FALSE,
                       "Only approved dividends can be distributed")
  /\ Len(dividends) >= 1
  /\ dividends[1].status = "paid"
  /\ dividend_distributions # <<>>
  /\ \A i, j \in 1..Len(dividend_distributions) :
       dividend_distributions[i].id[1] = dividend_distributions[j].id[1]
  /\ \A c \in Slots : calls[c] = Idle

\* the distribute requests that have passed the status check and not returned
Distributing(id) ==
  {c \in Slots : calls[c] # Idle /\ calls[c].op = "Dividend.distribute"
                                 /\ calls[c].arg = id}

\* the stored distribution rows of a dividend
RowsOf(id) == SelectSeq(dividend_distributions, LAMBDA r : r.dividend_id = id)

\* C11: of the distribute() calls that run on one approved dividend at the
\* same time, at most one gets past the approved-status check, and the
\* distribution rows stored for a dividend all come from one call (one
\* batch).
C11_OneDistributionBatch ==
  \A id \in DividendIdInputs :
    /\ Cardinality(Distributing(id)) <= 1
    /\ \A i, j \in 1..Len(RowsOf(id)) : RowsOf(id)[i].id[1] = RowsOf(id)[j].id[1]

\* C12: whenever a dividend is paid, the payout amounts of the distribution
\* rows stored for it add up to its recorded total amount.
C12_PaidTotalIsSumOfRows ==
  \A id \in 1..Len(dividends) :
    dividends[id].status = "paid"
    => TotalDistributed(RowsOf(id)) = dividends[id].total_dividend_amount

\* C13: at every moment at most one dividend that is not cancelled is stored
\* per (bank, year, type).
C13_OneLiveDividendPerKey ==
  \A i, j \in 1..Len(dividends) :
    (/\ dividends[i].bank_id = dividends[j].bank_id
     /\ dividends[i].dividend_year = dividends[j].dividend_year
     /\ dividends[i].dividend_type = dividends[j].dividend_type
     /\ dividends[i].status # "cancelled"
     /\ dividends[j].status # "cancelled")
    => i = j

\* C14: a declare that succeeds stores the new dividend with status
\* declared, the status approve() requires.
C14_DeclareStoresDeclared ==
  [][(outcome' # outcome /\ outcome'.op = "Dividend.create" /\ outcome'.ok)
     => /\ dividends'[outcome'.ref].status = "declared"
        /\ CanApprove(dividends'[outcome'.ref].status)]_vars

\* ======================================================================
\* Properties of the fixed deposits (checked under SpecDeposits)
\* ======================================================================
\* C15: a deposit that is matured or premature_closed keeps that status in
\* every later step, whatever operation runs.
C15_TerminalStatusIsFinal ==
  [][\A i \in 1..Len(fixed_deposits) :
       fixed_deposits[i].status \in {"matured", "premature_closed"}
       => fixed_deposits'[i].status = fixed_deposits[i].status]_vars

\* C16: every pending or active deposit carries the maturity amount that
\* the quarterly compounding formula gives for its current principal,
\* interest rate and tenure.
C16_MaturityAmountIsDerived ==
  \A i \in 1..Len(fixed_deposits) :
    fixed_deposits[i].status \in {"pending", "active"}
    => fixed_deposits[i].maturity_amount =
         calculateMaturityAmount(fixed_deposits[i].principal_amount,
                                 fixed_deposits[i].interest_rate,
                                 fixed_deposits[i].tenure_months)

\* C17: every booked deposit matures tenure_months after its start date.
C17_MaturityDateFromStart ==
  \A i \in 1..Len(fixed_deposits) :
    fixed_deposits[i].maturity_date =
      fixed_deposits[i].start_date + fixed_deposits[i].tenure_months

\* C18: the payout a premature closure writes is at most the full-term
\* maturity amount of the deposit it closes.
C18_PrematurePayoutAtMostFullTerm ==
  [][(outcome' # outcome /\ outcome'.op = "FixedDeposit.prematureClose"
                         /\ outcome'.ok)
     => fixed_deposits'[outcome'.ref].maturity_amount
          <= CompoundAmount(fixed_deposits[outcome'.ref].principal_amount,
                            fixed_deposits[outcome'.ref].interest_rate,
                            fixed_deposits[outcome'.ref].tenure_months)]_vars

\* ======================================================================
\* Properties of the loan lifecycle (checked under SpecLoans)
\* ======================================================================
\* the amounts repaid on a loan
RepaidOn(id) ==
  LET sel == SelectSeq(repayments, LAMBDA r : r.loan_id = id)
  IN SumSeq([i \in 1..Len(sel) |-> sel[i].amount])

\* In this step applyRepayment ran on (loan_id, amount).
Repaying(loan_id, amount) ==
  /\ outcome' = outcome
  /\ <<loans, repayments, receipt>>' # <<loans, repayments, receipt>>
  /\ receipt'.loan_id = loan_id
  /\ receipt'.amount = amount

C20_RepaymentRejectedUnchanged ==
  [][\A id \in LoanIdInputs, a \in RepaymentAmountInputs :
       Repaying(id, a) =>
         /\ id > Len(loans)
            => /\ receipt' = Receipt(id, a, FALSE, "LoanNotFound")
               /\ loans' = loans /\ repayments' = repayments
         /\ (id <= Len(loans) /\ loans[id].repayment_status \in {"closed", "defaulted"})
            => /\ receipt' = Receipt(id, a, FALSE, "LoanAlreadyClosed")
               /\ loans' = loans /\ repayments' = repayments
         /\ (id <= Len(loans) /\ loans[id].repayment_status \notin {"closed", "defaulted"}
                              /\ a > loans[id].outstanding_amount)
            => /\ receipt' = Receipt(id, a, FALSE, "OverpaymentExceedsOutstanding")
               /\ loans' = loans /\ repayments' = repayments]_vars

\* A repayment on a loan that earlier repayments closed has just been
\* refused.
C20_Witness ==
  /\ receipt.error = "LoanAlreadyClosed"
  /\ receipt.loan_id <= Len(loans)
  /\ loans[receipt.loan_id].repayment_status = "closed"
  /\ RepaidOn(receipt.loan_id) = loans[receipt.loan_id].principal_amount

C25_OneEntryPerTransaction ==
  [][/\ Len(transactions') >= Len(transactions)
     /\ SubSeq(transactions', 1, Len(transactions)) = transactions
     /\ \A k \in 1..Len(accounts) :
          (HandledValid(k) /\ response'.status = 201)
          => /\ Len(transactions') = Len(transactions) + 1
             /\ LET e == transactions'[Len(transactions')]
                IN e.balance_after =
                     IF e.type = "deposit" THEN e.balance_before + e.amount
                     ELSE e.balance_before - e.amount]_vars

\* C27: the entries the history read returns for an account form a chain:
\* the first starts from the opening balance, each next one from the
\* balance the previous one left, and the last one leaves the account's
\* current balance.
C27_LedgerChain ==
  \A k \in 1..Len(accounts) :
    LET h == TxOf(accounts[k].id)
    IN /\ \A i \in 1..Len(h) :
            h[i].balance_before =
              IF i = 1 THEN opening[k] ELSE h[i - 1].balance_after
       /\ accounts[k].balance =
            IF h = <<>> THEN opening[k] ELSE h[Len(h)].balance_after

\* An account with a deposit followed by a withdrawal of another amount.
C27_Witness ==
  \E k \in 1..Len(accounts) :
    LET h == TxOf(accounts[k].id)
    IN /\ Len(h) = 2
       /\ h[1].type = "deposit"
       /\ h[2].type = "withdrawal"
       /\ h[1].amount # h[2].amount

\* ======================================================================
\* Further properties of the share registry (checked under SpecShares)
\* ======================================================================
\* C24: a transfer from a member to that same member records nothing,
\* through the route or through Share.transfer itself: such a request
\* writes no row while it runs, and no transfer leaves rows whose source and
\* destination are the same member.
C24_SelfTransferRecordsNothing ==
  /\ \A c \in Slots :
       (/\ calls[c] # Idle
        /\ calls[c].op = "Share.transfer"
        /\ calls[c].arg.from_member_id = calls[c].arg.to_member_id)
       => ~HasRow(calls[c].id, 1)
  /\ \A k \in 1..MaxCalls :
       (HasRow(k, 1) /\ HasRow(k, 2))
       => RowOf(k, 1).member_id # RowOf(k, 2).member_id

\* ======================================================================
\* Further properties of the dividend engine (checked under SpecDividends)
\* ======================================================================
\* C23: the rows of a distribute() call are observable only while the call
\* is still running or once the dividend is paid: a call that has thrown
\* leaves none of its rows behind.
C23_FailedDistributeLeavesNoRows ==
  \A i \in 1..Len(dividend_distributions) :
    \/ InFlight(dividend_distributions[i].id[1])
    \/ dividends[dividend_distributions[i].dividend_id].status = "paid"

\* In this step an update request wrote (or failed to write) its fields.
UpdateStep ==
  \E c \in Slots :
    calls[c] # Idle /\ calls[c].op = "Dividend.update" /\ calls'[c] = Idle

\* C29: whatever the interleaving of approve(), distribute() and cancel()
\* requests, none of their steps turns a cancelled dividend into an approved
\* or paid one, and none leaves a cancelled dividend with distribution rows.
C29_CancelledStaysCancelled ==
  [][~UpdateStep =>
       \A i \in 1..Len(dividends) :
         /\ dividends[i].status = "cancelled"
            => dividends'[i].status \notin {"approved", "paid"}
         /\ dividends'[i].status = "cancelled"
            => \A r \in 1..Len(dividend_distributions') :
                 dividend_distributions'[r].dividend_id # i]_vars


\* ======================================================================
\* Further properties of the fixed deposits (checked under SpecDeposits)
\* ======================================================================
\* A mature() call returns in this step, successfully or not.
MatureReturns(ok) ==
  /\ outcome' # outcome
  /\ outcome'.op = "FixedDeposit.mature"
  /\ outcome'.ok = ok

\* C26: a mature() call that succeeds finds the deposit stored as active,
\* leaves it matured and leaves its maturity_amount as it was; a mature()
\* call that fails changes no deposit.
C26_MatureOnlyActive ==
  [][/\ MatureReturns(TRUE) =>
          /\ fixed_deposits[outcome'.ref].status = "active"
          /\ fixed_deposits'[outcome'.ref].status = "matured"
          /\ fixed_deposits'[outcome'.ref].maturity_amount =
               fixed_deposits[outcome'.ref].maturity_amount
     /\ MatureReturns(FALSE) => fixed_deposits' = fixed_deposits]_vars


\* ======================================================================
\* Transfers followed by a distribution (SpecPayout)
\* ======================================================================
\* A share register in which member A has two active holdings, member B one
\* and the inactive member C one, all recorded by Share.create in earlier
\* requests, and an approved dividend whose record date covers them all.
PayoutRegistry ==
  <<[id |-> 1, member_id |-> "A", number_of_shares |-> 1, share_value |-> 1,
     total_amount |-> 1, status |-> "active", created_at |-> 1],
    [id |-> 2, member_id |-> "A", number_of_shares |-> 2, share_value |-> 1,
     total_amount |-> 2, status |-> "active", created_at |-> 1],
    [id |-> 3, member_id |-> "B", number_of_shares |-> 1, share_value |-> 1,
     total_amount |-> 1, status |-> "active", created_at |-> 2],
    [id |-> 4, member_id |-> "C", number_of_shares |-> 1, share_value |-> 1,
     total_amount |-> 1, status |-> "active", created_at |-> 2]>>
PayoutPurchases ==
  <<TransactionRow(0, 1, "A", "purchase", 1, 1),
    TransactionRow(0, 2, "A", "purchase", 2, 2),
    TransactionRow(0, 3, "B", "purchase", 1, 1),
    TransactionRow(0, 4, "C", "purchase", 1, 1)>>
PayoutDividend ==
  [id |-> 1, dividend_year |-> 2024, dividend_type |-> "annual",
   dividend_rate |-> 50, total_dividend_amount |-> 0, record_date |-> 2,
   bank_id |-> "K", status |-> "approved"]

InitPayout ==
  /\ InitLedger
  /\ InitDeposits
  /\ InitLoans
  /\ InitFallback
  /\ shares = PayoutRegistry
  /\ share_transactions = PayoutPurchases
  /\ dividends = <<PayoutDividend>>
  /\ dividend_distributions = <<>>
  /\ calls = [c \in Slots |-> Idle]
  /\ started = 0
  /\ outcome = NoOutcome

\* the transfer requests that arrive through POST /api/v1/shares/transfer
PayoutTransferInputs == {d \in TransferInputs : d.via = "route"}

NextPayout ==
  \/ \E d \in PayoutTransferInputs : TransferStart(d) /\ UNCHANGED <<ledgerVars, depositVars, loanVars, fallbackVars>>
  \/ \E c \in Slots, b \in BOOLEAN : TransferReadShares(c, b) /\ UNCHANGED <<ledgerVars, depositVars, loanVars, fallbackVars>>
  \/ \E c \in Slots, b \in BOOLEAN : TransferDebit(c, b) /\ UNCHANGED <<ledgerVars, depositVars, loanVars, fallbackVars>>
  \/ \E c \in Slots, b \in BOOLEAN : TransferCredit(c, b) /\ UNCHANGED <<ledgerVars, depositVars, loanVars, fallbackVars>>
  \/ \E id \in DividendIdInputs : DistributeStart(id) /\ UNCHANGED <<ledgerVars, depositVars, loanVars, fallbackVars>>
  \/ \E c \in Slots, b \in BOOLEAN : DistributeReadShares(c, b) /\ UNCHANGED <<ledgerVars, depositVars, loanVars, fallbackVars>>
  \/ \E c \in Slots, b \in BOOLEAN : DistributeInsert(c, b) /\ UNCHANGED <<ledgerVars, depositVars, loanVars, fallbackVars>>
  \/ \E c \in Slots, b \in BOOLEAN : DistributeMarkPaid(c, b) /\ UNCHANGED <<ledgerVars, depositVars, loanVars, fallbackVars>>

SpecPayout == InitPayout /\ [][NextPayout]_vars

\* the holdings of member m that count for a record date
EligibleHoldings(m, record_date) ==
  {i \in 1..Len(shares) :
     /\ shares[i].member_id = m
     /\ shares[i].status = "active"
     /\ shares[i].created_at <= record_date}
Eligible(m, record_date) ==
  MemberStatus[m] = "active" /\ EligibleHoldings(m, record_date) # {}

RECURSIVE PayoutOver(_, _)
PayoutOver(holdings, dividend_rate) ==
  IF holdings = {} THEN 0
  ELSE LET i == CHOOSE j \in holdings : TRUE
       IN MemberDividend(shares[i].number_of_shares, shares[i].share_value,
                         dividend_rate)
          + PayoutOver(holdings \ {i}, dividend_rate)

\* the rows one distribute() call stored for member m
StoredFor(k, m) ==
  {r \in 1..Len(dividend_distributions) :
     /\ dividend_distributions[r].id[1] = k
     /\ dividend_distributions[r].member_id = m}

\* C22: among the rows a distribute() call stored, every eligible member
\* has exactly one, carrying the payout over all of that member's holdings,
\* and a member who is not eligible has none.
C22_OneRowPerEligibleMember ==
  \A r \in 1..Len(dividend_distributions) :
    LET k == dividend_distributions[r].id[1]
        this == dividends[dividend_distributions[r].dividend_id]
    IN \A m \in Members :
         IF Eligible(m, this.record_date)
         THEN /\ Cardinality(StoredFor(k, m)) = 1
              /\ \A q \in StoredFor(k, m) :
                   dividend_distributions[q].dividend_amount =
                     PayoutOver(EligibleHoldings(m, this.record_date),
                                this.dividend_rate)
         ELSE StoredFor(k, m) = {}

\* transfers whose two rows are both written
CompletedTransfers == {k \in 1..MaxCalls : HasRow(k, 1) /\ HasRow(k, 2)}

RECURSIVE NetTransferred(_, _)
NetTransferred(ks, m) ==
  IF ks = {} THEN 0
  ELSE LET k == CHOOSE j \in ks : TRUE
       IN (IF RowOf(k, 1).member_id = m THEN RowOf(k, 1).number_of_shares ELSE 0)
          + (IF RowOf(k, 2).member_id = m THEN RowOf(k, 2).number_of_shares ELSE 0)
          + NetTransferred(ks \ {k}, m)

\* the shares member m owns: the allocations that count for the record date,
\* less what m has transferred away, plus what m has received
Owned(m, record_date) ==
  TotalActiveShares(SelectSeq(shares, LAMBDA s : s.created_at <= record_date), m)
    + NetTransferred(CompletedTransfers, m)

\* C28: when distribute() works out the payouts, each active member is paid
\* on the shares that member owns after the transfers completed so far: the
\* shares allocated, less those transferred away, plus those received.
C28_PayoutFollowsTransfers ==
  [][\A c \in Slots :
       (/\ calls[c] # Idle
        /\ calls[c].op = "Dividend.distribute"
        /\ calls[c].pc = "readShares"
        /\ calls'[c] # Idle
        /\ calls'[c].pc = "insert")
       => \A m \in {"A", "B"} :
            /\ SumShares(calls'[c].loc.rows, m)
                 = Owned(m, calls[c].loc.this.record_date)
            /\ SumSeq([i \in 1..Len(calls'[c].loc.rows) |->
                         IF calls'[c].loc.rows[i].member_id = m
                         THEN calls'[c].loc.rows[i].dividend_amount ELSE 0])
                 = MemberDividend(Owned(m, calls[c].loc.this.record_date), 1,
                                  calls[c].loc.this.dividend_rate)]_vars


\* ======================================================================
\* Properties of the customer controller (checked under SpecCustomers)
\* ======================================================================
CustomerKeysOf(i) == {fallbackCustomers[i].id, fallbackCustomers[i].customer_id}

\* C30: no identifier belongs to two customers of the fallback store, and a
\* fallback lookup by an identifier of a stored customer answers with that
\* customer.
C30_FallbackKeysUnique ==
  /\ \A i, j \in 1..Len(fallbackCustomers) :
       i # j => CustomerKeysOf(i) \cap CustomerKeysOf(j) = {}
  /\ (reply.op = "getCustomerById" /\ reply.storage = "fallback")
       => \A i \in 1..Len(fallbackCustomers) :
            reply.id \in CustomerKeysOf(i) => reply.data = fallbackCustomers[i]

====
